---- MODULE Spec2Model ----
(***************************************************************************)
(* pi-acp: the bridge between an ACP connection and a `pi --mode rpc`     *)
(* subprocess.                                                             *)
(*                                                                         *)
(*   PiRpcProcess  (src/unnamed/part_000, lines 122-236): the transport.   *)
(*   PiAcpSession  (src/src/acp/session.ts): turn, cancel, tool-call and   *)
(*                 notification state of one session.                     *)
(*                                                                         *)
(* One step of the model is one callback of the Node event loop together   *)
(* with the promise continuations it makes runnable: a call of prompt()    *)
(* or cancel(), one line read from the subprocess's stdout, the 'exit'     *)
(* event, the error callback of a stdin write, or the settling of one      *)
(* conn.sessionUpdate() call.  Continuations that wait for something else  *)
(* (a later delivery) stay in `flushes` and run in the step that makes     *)
(* them runnable.                                                          *)
(***************************************************************************)
EXTENDS Naturals, Sequences, FiniteSets, TLC

\* ------------------------------------------------------------------ bounds
MaxTurns   == 2      \* accepted prompt() calls
MaxRejects == 1      \* prompt() calls rejected with invalid-request
MaxCancels == 1      \* cancel() calls
MaxLines   == 4      \* lines read from the subprocess's stdout

\* crypto.randomUUID(): the n-th call of the run returns a value no earlier
\* call returned.
UuidPool == <<"u1", "u2", "u3", "u4", "u5", "u6", "u7", "u8", "u9", "u10", "u11", "u12">>
Uuid(n) == UuidPool[n]

\* An id no request of this run carries (a response "never issued").
UnknownId == "u0"
\* toolCallId absent from the event (undefined or null).
NoId == "undefined"

VARIABLES
    boot,             \* SessionManager.create: "spawning" | "creating" | "ready" | "failed"
    child,            \* "alive" | "exited" ('exit' was emitted) | "closed" (stdout at EOF)
    nuuid,            \* randomUUID() calls so far
    reqs,             \* the promises request() returned, in call order
    pending,          \* PiRpcProcess.pending: id -> index into reqs
    eventHandlers,    \* PiRpcProcess.eventHandlers
    cancelRequested,  \* PiAcpSession.cancelRequested
    pendingTurn,      \* PiAcpSession.pendingTurn: 0 (null) or an index into turns
    currentToolCalls, \* PiAcpSession.currentToolCalls
    updates,          \* the lastEmit chain: every update emit() was given, with its delivery state
    connLog,          \* conn.sessionUpdate calls, in call order (indices into updates)
    flushes,          \* flushEmits().finally(...) continuations not yet run
    turns,            \* the promises prompt() returned, in call order
    events,           \* the message_update and tool_execution_* events handlePiEvent was given, in order
    ndisp,            \* messages the line handler handed to the listeners so far
    received,         \* what the recording listeners were called with, in call order
    thrown,           \* the exception that escaped the line handler ("": none)
    nbad,             \* lines the line handler returned from before looking at the message
    nlines,           \* lines read so far
    ncancel,          \* cancel() calls so far
    nrejected         \* prompt() calls that threw invalid-request

vars == <<boot, child, nuuid, reqs, pending, eventHandlers, cancelRequested, pendingTurn,
          currentToolCalls, updates, connLog, flushes, turns, events, ndisp, received, thrown, nbad, nlines,
          ncancel, nrejected>>

\* ------------------------------------------------------- lines of the backend
Resp(id, ok) == [type |-> "response", id |-> id, ok |-> ok]
TextDelta(d) == [type |-> "message_update", ame |-> "text_delta", delta |-> d]
OtherDelta   == [type |-> "message_update", ame |-> "thinking_delta", delta |-> "x"]
TurnEnd      == [type |-> "turn_end"]
ToolStart(id)     == [type |-> "tool_execution_start", toolCallId |-> id]
ToolUpdate(id)    == [type |-> "tool_execution_update", toolCallId |-> id]
ToolEnd(id, err)  == [type |-> "tool_execution_end", toolCallId |-> id, isError |-> err]

\* ------------------------------------------------------------- the emit chain
\* emit(): lastEmit = lastEmit.then(() => conn.sessionUpdate(update)).catch(() => {})
Done_SentOnly(u) == u.st = "sent"
Done(u) == u.st \in {"sent", "failed"}
NDone(us) == Cardinality({i \in DOMAIN us : Done(us[i])})
Queued(us) == {i \in DOMAIN us : us[i].st = "queued"}

Enqueue(us, items) ==
    us \o [i \in 1..Len(items) |-> [upd |-> items[i], st |-> "queued"]]

\* The .then() callback of the i-th link runs once the (i-1)-th link has settled.
CanStart_Unchained(us, i) == us[i].st = "queued"
CanStart(us, i) ==
    /\ us[i].st = "queued"
    /\ i = 1 \/ Done(us[i - 1])

\* Runs the .then() callbacks that are runnable: each calls conn.sessionUpdate.
RECURSIVE Pump(_, _)
Pump(us, log) ==
    LET can == {i \in DOMAIN us : CanStart(us, i)}
    IN  IF can = {} THEN [u |-> us, log |-> log]
        ELSE LET i == CHOOSE j \in can : \A k \in can : j <= k
             IN  Pump([us EXCEPT ![i].st = "sending"], Append(log, i))

\* ------------------------------------------------------------------ turns
NewTurn == [text |-> <<>>,      \* the text prompt() was given
            st |-> "open",      \* "open" | "end_turn" | "cancelled" | "error" | "rejected"
            term |-> "none",    \* the first terminal event of its own seen while it was open
            tpos |-> 0,         \* Len(updates) when that event was handled
            cancel |-> FALSE,   \* cancel() was called while it was open
            dres |-> 0,         \* NDone(updates) when it resolved
            via |-> "none",     \* what registered the continuation that resolved it
            trig |-> 0]         \* the turn that continuation's event belongs to (0: none)

\* Line 131: if (this.pendingTurn) throw ...
TurnInProgress_Never == FALSE
TurnInProgress == pendingTurn # 0

\* Lines 147 and 272: cancelRequested ? 'cancelled' : 'error' | 'end_turn'
StopReason(flag, src) ==
    IF flag THEN "cancelled"
    ELSE IF src = "turn_end" THEN "end_turn" ELSE "error"
Reason(src) == StopReason(cancelRequested, src)

\* A continuation is runnable once the lastEmit it awaited has settled.
Runnable(f, nd) == f.pos <= nd

\* The ghost record of the first terminal event of the open turn.
NoteTerm(ts, t, what, pos) ==
    IF t # 0 /\ ts[t].st = "open" /\ ts[t].term = "none"
    THEN [ts EXCEPT ![t].term = what, ![t].tpos = pos]
    ELSE ts

\* The end of every step that emitted, registered a flush or finished a
\* delivery: start what the chain can start, then run the continuations that
\* became runnable, in registration order.  The first one resolves the pending
\* turn and clears it; for the others pendingTurn is already null.
\* pt and flag are this.pendingTurn and this.cancelRequested as the step's
\* synchronous part left them.
SettleTurn(us, fs, ts, pt, flag) ==
    LET p   == Pump(us, connLog)
        nd  == NDone(p.u)
        rdy == SelectSeq(fs, LAMBDA f : Runnable(f, nd))
    IN  /\ updates' = p.u
        /\ connLog' = p.log
        /\ flushes' = SelectSeq(fs, LAMBDA f : ~Runnable(f, nd))
        /\ IF rdy # <<>> /\ pt # 0
           THEN /\ turns' = [ts EXCEPT ![pt].st = StopReason(flag, rdy[1].src),
                                       ![pt].dres = nd,
                                       ![pt].via = rdy[1].src,
                                       ![pt].trig = rdy[1].t]
                /\ pendingTurn' = 0
           ELSE /\ turns' = ts
                /\ pendingTurn' = pt

Settle(us, fs, ts) == SettleTurn(us, fs, ts, pendingTurn, cancelRequested)

\* flushEmits().finally(cb) registered by the turn_end case (lines 271-275).
TurnEndFlush == [pos |-> Len(updates), src |-> "turn_end", t |-> pendingTurn]
\* ... and by the catch handler of proc.prompt() (lines 143-152), for request r.
FailFlush(r, pos) == [pos |-> pos, src |-> "fail", t |-> reqs[r].turn]

\* ------------------------------------------------------------- the transport
\* PiRpcProcess.request (part_000 lines 220-235): mint an id, register the
\* promise under it, write the line.
NewRequest(kind, t, msg) ==
    [kind |-> kind, id |-> Uuid(nuuid + 1), fut |-> "pending", by |-> "", turn |-> t,
     msg |-> msg]

\* child.stdin.write(line, cb) once 'exit' has been emitted: Node destroys the
\* stdin stream of a child when the child exits, and a write to a destroyed
\* stream calls cb with an error on the next tick, before any other event.
StdinDestroyed_Never == FALSE
StdinDestroyed == child # "alive"

Request(kind, t, msg) ==
    /\ nuuid' = nuuid + 1
    /\ reqs' = Append(reqs, NewRequest(kind, t, msg))
    /\ pending' = pending @@ (Uuid(nuuid + 1) :> Len(reqs) + 1)

\* request() on a destroyed stdin: pending.set(id), then the write callback
\* deletes the id and rejects the promise (lines 227-232).
RequestFails(kind, t, msg) ==
    /\ nuuid' = nuuid + 1
    /\ reqs' = Append(reqs, [NewRequest(kind, t, msg)
                               EXCEPT !.fut = "rejected", !.by = "write"])
    /\ pending' = pending

\* this.pending.delete(id)
Delete_Keep(map, id) == map
Delete(map, id) == [k \in DOMAIN map \ {id} |-> map[k]]

\* this.pending.get(msg.id)
Get_Any(map, id) == IF DOMAIN map = {} THEN 0 ELSE map[CHOOSE k \in DOMAIN map : TRUE]
Get(map, id) == IF id \in DOMAIN map THEN map[id] ELSE 0

\* Settling a promise has an effect only while it is pending.
Fulfil(rs, r, ok, id) ==
    IF rs[r].fut = "pending"
    THEN [rs EXCEPT ![r].fut = IF ok THEN "ok" ELSE "notok", ![r].by = id]
    ELSE rs
Reject_Never(rs, r, why) == rs
Reject(rs, r, why) ==
    IF rs[r].fut = "pending" THEN [rs EXCEPT ![r].fut = "rejected", ![r].by = why] ELSE rs

\* The requests whose promise just went from pending to failed, in call order,
\* that are prompt requests: PiRpcProcess.prompt() throws for each (rejected, or
\* fulfilled with ok = false), and the catch handler of session.ts:143 runs.
FailedPrompts(rs1) ==
    SelectSeq([r \in 1..Len(reqs) |-> r],
              LAMBDA r : /\ reqs[r].kind = "prompt"
                         /\ reqs[r].fut = "pending"
                         /\ rs1[r].fut \in {"notok", "rejected"})

\* The catch handler (session.ts:143-152) for each failed prompt request:
\* flushEmits().finally(...) awaits the lastEmit of that moment.
CatchFailed(rs1) ==
    LET fp == FailedPrompts(rs1)
        fs == flushes \o [i \in 1..Len(fp) |-> FailFlush(fp[i], Len(updates))]
        own == {i \in 1..Len(fp) : reqs[fp[i]].turn = pendingTurn}
        ts == IF own = {} THEN turns
              ELSE NoteTerm(turns, pendingTurn, "fail", Len(updates))
    IN  Settle(updates, fs, ts)

\* The continuations of the get_state promises, run in the step that settles
\* one (rs1 and pend1 are the promises and the pending map as that step left
\* them, dead tells whether stdin is destroyed by then).
\*   PiRpcProcess.spawn (part_000:190-197) awaits the first in a try/catch and
\*     returns the transport whatever the outcome;
\*   SessionManager.create (session.ts:39-63) then awaits a second one, outside
\*     any try/catch, and constructs the session, whose constructor registers
\*     the listener (session.ts:127).
Handshake(rs1, pend1, dead) ==
    LET done == {r \in DOMAIN reqs : /\ reqs[r].kind = "get_state"
                                     /\ reqs[r].fut = "pending"
                                     /\ rs1[r].fut # "pending"}
    IN  IF boot = "spawning" /\ done # {} THEN
           /\ nuuid' = nuuid + 1
           /\ reqs' = Append(rs1, IF dead
                                  THEN [NewRequest("get_state", 0, <<>>)
                                          EXCEPT !.fut = "rejected", !.by = "write"]
                                  ELSE NewRequest("get_state", 0, <<>>))
           /\ pending' = IF dead THEN pend1
                         ELSE pend1 @@ (Uuid(nuuid + 1) :> Len(reqs) + 1)
           /\ boot' = IF dead THEN "failed" ELSE "creating"
           /\ UNCHANGED eventHandlers
        ELSE IF boot = "creating" /\ done # {} THEN
           /\ reqs' = rs1
           /\ pending' = pend1
           /\ UNCHANGED nuuid
           /\ IF \E r \in done : rs1[r].fut = "ok"
              THEN /\ boot' = "ready"
                   /\ eventHandlers' = Append(eventHandlers, "session")
              ELSE /\ boot' = "failed"
                   /\ UNCHANGED eventHandlers
        ELSE
           /\ reqs' = rs1
           /\ pending' = pend1
           /\ UNCHANGED <<nuuid, boot, eventHandlers>>

\* ------------------------------------------------------------ the session
ChunkUpdate(d) == [kind |-> "agent_message_chunk", id |-> "", status |-> "", text |-> d]
ToolCall(id) == [kind |-> "tool_call", id |-> id, status |-> "pending", text |-> ""]
ToolCallUpdate(id, status) == [kind |-> "tool_call_update", id |-> id, status |-> status, text |-> ""]

\* String(ev.toolCallId ?? ''): a missing id becomes the empty string.
IdOrEmpty(ev) == IF ev.toolCallId = NoId THEN "" ELSE ev.toolCallId

EmittingTypes == {"message_update", "tool_execution_start", "tool_execution_update",
                  "tool_execution_end"}

\* PiAcpSession.handlePiEvent (session.ts:185-282).
HandlePiEvent(ev) ==
    /\ events' = IF ev.type \in EmittingTypes THEN Append(events, ev) ELSE events
    /\ IF ev.type = "message_update" THEN
          /\ Settle(IF ev.ame = "text_delta"
                    THEN Enqueue(updates, <<ChunkUpdate(ev.delta)>>)
                    ELSE updates,
                    flushes, turns)
          /\ UNCHANGED <<nuuid, currentToolCalls>>
       ELSE IF ev.type = "tool_execution_start" THEN
          LET minted == ev.toolCallId = NoId
              id == IF minted THEN Uuid(nuuid + 1) ELSE ev.toolCallId
          IN  /\ nuuid' = IF minted THEN nuuid + 1 ELSE nuuid
              /\ currentToolCalls' = currentToolCalls \cup {id}
              /\ Settle(Enqueue(updates, <<ToolCall(id), ToolCallUpdate(id, "in_progress")>>),
                        flushes, turns)
       ELSE IF ev.type = "tool_execution_update" THEN
          /\ Settle(IF IdOrEmpty(ev) = "" THEN updates
                    ELSE Enqueue(updates, <<ToolCallUpdate(IdOrEmpty(ev), "in_progress")>>),
                    flushes, turns)
          /\ UNCHANGED <<nuuid, currentToolCalls>>
       ELSE IF ev.type = "tool_execution_end" THEN
          /\ Settle(IF IdOrEmpty(ev) = "" THEN updates
                    ELSE Enqueue(updates,
                           <<ToolCallUpdate(IdOrEmpty(ev),
                                            IF ev.isError THEN "failed" ELSE "completed")>>),
                    flushes, turns)
          /\ currentToolCalls' = IF IdOrEmpty(ev) = "" THEN currentToolCalls
                                 ELSE currentToolCalls \ {IdOrEmpty(ev)}
          /\ UNCHANGED nuuid
       ELSE IF ev.type = "turn_end" THEN
          /\ Settle(updates, Append(flushes, TurnEndFlush),
                    NoteTerm(turns, pendingTurn, "turn_end", Len(updates)))
          /\ UNCHANGED <<nuuid, currentToolCalls>>
       ELSE
          UNCHANGED <<nuuid, currentToolCalls, updates, connLog, flushes, turns, pendingTurn>>

\* An exception that escapes the 'line' handler is uncaught: no
\* 'uncaughtException' handler is installed, so the bridge process ends and
\* runs nothing more.
Running == thrown = ""

\* What msg?.type evaluates to for a parsed value without a type.
NoType == "undefined"
\* JSON.parse results that are not an event of the backend: null, a number, a
\* mapping without type, a mapping of an unknown type, a response without id.
Null       == [type |-> NoType, json |-> "null"]
Number     == [type |-> NoType, json |-> "number"]
Untyped    == [type |-> NoType, json |-> "object"]
AgentEnd   == [type |-> "agent_end"]
RespNoId   == [type |-> "response", id |-> NoId, ok |-> TRUE]

\* A call h(msg) that throws.  The session's listener is ev => handlePiEvent(ev)
\* (session.ts:127), and handlePiEvent reads (ev as any).type first
\* (session.ts:186): a TypeError when ev is null.  A recording listener returns.
Throws(h, ev) == h = "session" /\ ev = Null

\* for (const h of this.eventHandlers) h(msg) (part_000:165): the listeners
\* called, in order: all of them, or those up to the first that throws.
Called_First(hs, ev) == SubSeq(hs, 1, 1)
Called(hs, ev) ==
    IF \E k \in DOMAIN hs : Throws(hs[k], ev)
    THEN SubSeq(hs, 1, CHOOSE k \in DOMAIN hs :
                          Throws(hs[k], ev) /\ \A j \in 1..(k - 1) : ~Throws(hs[j], ev))
    ELSE hs

Dispatch(ev) ==
    LET hs == Called(eventHandlers, ev)
        recorders == SelectSeq(hs, LAMBDA h : h # "session")
    IN  /\ received' = received \o [k \in 1..Len(recorders) |-> [h |-> recorders[k], msg |-> ev]]
        /\ thrown' = IF \E k \in DOMAIN hs : Throws(hs[k], ev) THEN "TypeError" ELSE thrown
        /\ IF \E k \in DOMAIN hs : hs[k] = "session" /\ ~Throws(hs[k], ev)
           THEN HandlePiEvent(ev)
           ELSE UNCHANGED <<nuuid, currentToolCalls, events, updates, connLog, flushes, turns,
                            pendingTurn>>

\* PiRpcProcess.onEvent (part_000:200-202).
OnEvent(h) ==
    /\ Running
    /\ \A k \in DOMAIN eventHandlers : eventHandlers[k] # h
    /\ eventHandlers' = Append(eventHandlers, h)
    /\ UNCHANGED <<boot, child, nuuid, reqs, pending, cancelRequested, pendingTurn,
                   currentToolCalls, updates, connLog, flushes, turns, events, ndisp, received,
                   thrown, nbad, nlines, ncancel, nrejected>>

\* ------------------------------------------------------- slash commands
\* Text is a sequence of characters.  In a command body the matches of the two
\* patterns of substituteArgs, /\$@/ and /\$(\d+)/, are written as one element
\* each ("$@", "$1", ...); every other element is one character.
RECURSIVE Flatten(_)
Flatten(ss) == IF ss = <<>> THEN <<>> ELSE Head(ss) \o Flatten(Tail(ss))

\* args.join(' ')
RECURSIVE Join(_)
Join(args) ==
    IF args = <<>> THEN <<>>
    ELSE IF Len(args) = 1 THEN args[1]
    ELSE args[1] \o <<" ">> \o Join(Tail(args))

\* parseCommandArgs (slash-commands.ts:136-164); inQuote = "" stands for null.
RECURSIVE ParseArgsFrom(_, _, _, _, _)
ParseArgsFrom(s, i, current, inQuote, args) ==
    IF i > Len(s)
    THEN IF current # <<>> THEN Append(args, current) ELSE args
    ELSE LET ch == s[i]
         IN  IF inQuote # ""
             THEN IF ch = inQuote
                  THEN ParseArgsFrom(s, i + 1, current, "", args)
                  ELSE ParseArgsFrom(s, i + 1, Append(current, ch), inQuote, args)
             ELSE IF ch \in {"\"", "'"}
                  THEN ParseArgsFrom(s, i + 1, current, ch, args)
             ELSE IF ch \in {" ", "\t"}
                  THEN IF current # <<>>
                       THEN ParseArgsFrom(s, i + 1, <<>>, "", Append(args, current))
                       ELSE ParseArgsFrom(s, i + 1, current, "", args)
             ELSE ParseArgsFrom(s, i + 1, Append(current, ch), "", args)
ParseCommandArgs(argsString) == ParseArgsFrom(argsString, 1, <<>>, "", <<>>)

\* substituteArgs (slash-commands.ts:169-179): first every $@, then every $N.
Positional == ("$1" :> 1) @@ ("$2" :> 2) @@ ("$3" :> 3)
SubstituteArgs(content, args) ==
    LET all == Flatten([k \in 1..Len(content) |->
                          IF content[k] = "$@" THEN Join(args) ELSE <<content[k]>>])
    IN  Flatten([k \in 1..Len(all) |->
                   IF all[k] \in DOMAIN Positional
                   THEN IF Positional[all[k]] <= Len(args) THEN args[Positional[all[k]]]
                        ELSE <<>>
                   ELSE <<all[k]>>])

\* text.indexOf(' '): 0 stands for -1.
IndexOfSpace(text) ==
    IF \E i \in 1..Len(text) : text[i] = " "
    THEN CHOOSE i \in 1..Len(text) : text[i] = " " /\ \A j \in 1..(i - 1) : text[j] # " "
    ELSE 0

\* fileCommands.find(c => c.name === commandName): 0 stands for undefined.
Find(cmds, name) ==
    IF \E k \in 1..Len(cmds) : cmds[k].name = name
    THEN CHOOSE k \in 1..Len(cmds) :
            cmds[k].name = name /\ \A j \in 1..(k - 1) : cmds[j].name # name
    ELSE 0

\* expandSlashCommand (slash-commands.ts:185-197).
ExpandSlashCommand_None(text, cmds) == text
ExpandSlashCommand(text, cmds) ==
    IF text = <<>> \/ text[1] # "/" THEN text
    ELSE LET spaceIndex == IndexOfSpace(text)
             commandName == IF spaceIndex = 0 THEN SubSeq(text, 2, Len(text))
                            ELSE SubSeq(text, 2, spaceIndex - 1)
             argsString == IF spaceIndex = 0 THEN <<>>
                           ELSE SubSeq(text, spaceIndex + 1, Len(text))
             cmd == Find(cmds, commandName)
         IN  IF cmd = 0 THEN text
             ELSE SubstituteArgs(cmds[cmd].content, ParseCommandArgs(argsString))

\* The session's catalog (opts.fileCommands): two entries share the name "a".
fileCommands ==
    <<[name |-> <<"a">>, content |-> <<"x", "=", "$1", " ", "$@", "$2">>],
      [name |-> <<"a">>, content |-> <<"n", "o">>],
      [name |-> <<"b">>, content |-> <<"y">>]>>

\* Line 131: throw RequestError.invalidRequest(...), before anything else.
PromptRejected_ClearsFlag ==
    /\ nrejected < MaxRejects
    /\ nrejected' = nrejected + 1
    /\ cancelRequested' = FALSE
    /\ UNCHANGED <<boot, child, nuuid, reqs, pending, eventHandlers, pendingTurn,
                   currentToolCalls, updates, connLog, flushes, turns, events, ndisp, received,
                   thrown, nbad, nlines, ncancel>>
PromptRejected ==
    /\ nrejected < MaxRejects
    /\ nrejected' = nrejected + 1
    /\ UNCHANGED <<boot, child, nuuid, reqs, pending, eventHandlers, cancelRequested,
                   pendingTurn, currentToolCalls, updates, connLog, flushes, turns, events,
                   ndisp, received, thrown, nbad, nlines, ncancel>>

\* Line 133: this.cancelRequested = false
ClearedFlag_Kept == cancelRequested
ClearedFlag == FALSE

\* PiAcpSession.prompt (session.ts:130-155).
Prompt(text) ==
    /\ Running
    /\ boot = "ready"
    /\ IF TurnInProgress
       THEN PromptRejected
       ELSE
         /\ Len(turns) < MaxTurns
         /\ cancelRequested' = ClearedFlag
         /\ UNCHANGED <<boot, child, eventHandlers, currentToolCalls, events, ndisp, received,
                        thrown, nbad, nlines, ncancel, nrejected>>
         /\ LET t == Len(turns) + 1
                ts == Append(turns, [NewTurn EXCEPT !.text = text])
                expandedMessage == ExpandSlashCommand(text, fileCommands)
            IN  IF StdinDestroyed
                THEN \* the request fails at once and the catch handler runs
                     /\ RequestFails("prompt", t, expandedMessage)
                     /\ SettleTurn(updates,
                                   Append(flushes,
                                          [pos |-> Len(updates), src |-> "fail", t |-> t]),
                                   NoteTerm(ts, t, "fail", Len(updates)), t, ClearedFlag)
                ELSE /\ turns' = ts
                     /\ pendingTurn' = t
                     /\ Request("prompt", t, expandedMessage)
                     /\ UNCHANGED <<updates, connLog, flushes>>

\* PiAcpSession.cancel (session.ts:157-160).
Cancel_Rewrites ==
    /\ Running
    /\ boot = "ready"
    /\ ncancel < MaxCancels
    /\ ncancel' = ncancel + 1
    /\ cancelRequested' = TRUE
    /\ IF StdinDestroyed THEN RequestFails("abort", 0, <<>>) ELSE Request("abort", 0, <<>>)
    /\ turns' = [t \in DOMAIN turns |->
                   IF t = pendingTurn THEN [turns[t] EXCEPT !.cancel = TRUE]
                   ELSE [turns[t] EXCEPT !.st = "cancelled"]]
    /\ UNCHANGED <<boot, child, eventHandlers, pendingTurn, currentToolCalls, updates,
                   connLog, flushes, events, ndisp, received, thrown, nbad, nlines, nrejected>>
Cancel ==
    /\ Running
    /\ boot = "ready"
    /\ ncancel < MaxCancels
    /\ ncancel' = ncancel + 1
    /\ cancelRequested' = TRUE
    /\ IF StdinDestroyed THEN RequestFails("abort", 0, <<>>) ELSE Request("abort", 0, <<>>)
    /\ turns' = IF pendingTurn # 0 THEN [turns EXCEPT ![pendingTurn].cancel = TRUE] ELSE turns
    /\ UNCHANGED <<boot, child, eventHandlers, pendingTurn, currentToolCalls, updates,
                   connLog, flushes, events, ndisp, received, thrown, nbad, nlines, nrejected>>

\* The 'line' handler of the constructor (part_000 lines 148-167).  A response
\* can be in the output only for a request the subprocess read, so none is read
\* for an id minted after the exit; every response read after the exit finds
\* the pending map without its id and is dropped.
Line(l) ==
    /\ Running
    /\ child # "closed"
    /\ nlines < MaxLines
    /\ nlines' = nlines + 1
    /\ UNCHANGED <<child, cancelRequested, nbad, ncancel, nrejected>>
    /\ IF l.type = "response" /\ l.id # NoId THEN
          /\ child = "alive"
          /\ l.id = UnknownId \/ \E r \in 1..Len(reqs) : reqs[r].id = l.id
          /\ UNCHANGED <<currentToolCalls, events, ndisp, received, thrown>>
          /\ LET r == Get(pending, l.id)
             IN  IF r # 0
                 THEN LET rs1 == Fulfil(reqs, r, l.ok, l.id)
                      IN  /\ Handshake(rs1, Delete(pending, l.id), StdinDestroyed)
                          /\ CatchFailed(rs1)
                 ELSE UNCHANGED <<boot, nuuid, eventHandlers, reqs, pending, updates, connLog,
                                  flushes, turns, pendingTurn>>
       ELSE
          /\ UNCHANGED <<boot, eventHandlers, reqs, pending>>
          /\ IF eventHandlers # <<>>
             THEN /\ ndisp' = ndisp + 1
                  /\ Dispatch(l)
             ELSE UNCHANGED <<nuuid, currentToolCalls, events, ndisp, received, thrown, updates, connLog,
                              flushes, turns, pendingTurn>>

\* The 'exit' handler of the constructor (part_000 lines 169-173).
Exit ==
    /\ Running
    /\ child = "alive"
    /\ child' = "exited"
    /\ LET rs1 == [r \in 1..Len(reqs) |->
                     IF reqs[r].id \in DOMAIN pending THEN Reject(reqs, r, "exit")[r] ELSE reqs[r]]
       IN  /\ Handshake(rs1, <<>>, TRUE)
           /\ CatchFailed(rs1)
    /\ UNCHANGED <<cancelRequested, currentToolCalls, events, ndisp, received, thrown, nbad, nlines, ncancel,
                   nrejected>>

\* The subprocess's stdout reaches end of file: no line is read after it.
StdoutClose ==
    /\ Running
    /\ child = "exited"
    /\ child' = "closed"
    /\ UNCHANGED <<boot, nuuid, reqs, pending, eventHandlers, cancelRequested, pendingTurn,
                   currentToolCalls, updates, connLog, flushes, turns, events, ndisp, received, thrown, nbad, nlines,
                   ncancel, nrejected>>

\* The callback of child.stdin.write called with an error (part_000 lines
\* 228-233).  Called for a request whose promise has settled, it changes nothing.
WriteFail(r) ==
    /\ Running
    /\ r \in 1..Len(reqs)
    /\ reqs[r].fut = "pending"
    /\ LET rs1 == Reject(reqs, r, "write")
       IN  /\ Handshake(rs1, Delete(pending, reqs[r].id), StdinDestroyed)
           /\ CatchFailed(rs1)
    /\ UNCHANGED <<child, cancelRequested, currentToolCalls, events, ndisp, received, thrown, nbad, nlines, ncancel,
                   nrejected>>

\* The promise of one conn.sessionUpdate call settles: fulfilled (ok) or
\* rejected, which the .catch of emit() swallows.
FinishDelivery(i, ok) ==
    /\ Running
    /\ i \in DOMAIN updates
    /\ updates[i].st = "sending"
    /\ Settle([updates EXCEPT ![i].st = IF ok THEN "sent" ELSE "failed"], flushes, turns)
    /\ UNCHANGED <<boot, child, nuuid, reqs, pending, eventHandlers, cancelRequested,
                   currentToolCalls, events, ndisp, received, thrown, nbad, nlines, ncancel, nrejected>>

\* ----------------------------------------------------------- specifications
\* After new PiAcpSession(...): one listener registered, nothing in flight.
Init ==
    /\ boot = "ready"
    /\ child = "alive"
    /\ nuuid = 0
    /\ reqs = <<>>
    /\ pending = <<>>
    /\ eventHandlers = <<"session">>
    /\ cancelRequested = FALSE
    /\ pendingTurn = 0
    /\ currentToolCalls = {}
    /\ updates = <<>>
    /\ connLog = <<>>
    /\ flushes = <<>>
    /\ turns = <<>>
    /\ events = <<>>
    /\ ndisp = 0
    /\ received = <<>>
    /\ thrown = ""
    /\ nbad = 0
    /\ nlines = 0
    /\ ncancel = 0
    /\ nrejected = 0

\* The text of a prompt where the text does not matter.
Hi == <<"h", "i">>

Ids == {Uuid(n) : n \in 1..(MaxTurns + MaxCancels)}
TurnLines == {Resp(id, ok) : id \in Ids, ok \in BOOLEAN} \cup {TextDelta("a"), TurnEnd}

\* Turns, cancellation and the transport, with any backend output.
Next ==
    \/ Prompt(Hi)
    \/ Cancel
    \/ \E l \in TurnLines : Line(l)
    \/ Exit
    \/ \E r \in 1..(MaxTurns + MaxCancels) : WriteFail(r)
    \/ \E i \in 1..MaxLines : FinishDelivery(i, TRUE)

Spec == Init /\ [][Next]_vars

\* Spec with the end of the subprocess's output: after the exit the remaining
\* lines are read, then stdout is at EOF.
NextClose ==
    \/ Next
    \/ StdoutClose

SpecClose == Init /\ [][NextClose]_vars

\* Notification delivery alone: events that emit, and deliveries that succeed or
\* fail, in every interleaving.
DeliverLines == {TextDelta("a"), OtherDelta, ToolStart("t1"), ToolEnd("t1", FALSE)}

NextDeliver ==
    \/ \E l \in DeliverLines : Line(l)
    \/ \E i \in 1..(2 * MaxLines), ok \in BOOLEAN : FinishDelivery(i, ok)

SpecDeliver == Init /\ [][NextDeliver]_vars

\* --------------------------------------------------------------------- C1
OpenTurns == {t \in DOMAIN turns : turns[t].st = "open"}
PromptCalls == Len(turns) + nrejected

\* C1: a Session has at most one open Turn (the one pendingTurn names); a
\* prompt() called while a Turn is open is rejected (invalid-request), opens no
\* Turn, is not queued and sends no request to the backend.
C1_OneOpenTurn ==
    /\ [](OpenTurns = IF pendingTurn = 0 THEN {} ELSE {pendingTurn})
    /\ [][(OpenTurns # {} /\ PromptCalls' # PromptCalls)
            => /\ nrejected' = nrejected + 1
               /\ UNCHANGED <<turns, pendingTurn, reqs, pending, flushes, updates,
                              cancelRequested>>]_vars

\* A prompt() was rejected while a Turn was open.
C1_Witness == nrejected > 0 /\ pendingTurn # 0 /\ Len(reqs) = 1

\* --------------------------------------------------------------------- C2
Sending == {i \in DOMAIN updates : updates[i].st = "sending"}

\* C2: the delivery of an update starts only after the delivery of every update
\* enqueued before it has finished (fulfilled or failed): at most one
\* conn.sessionUpdate call is in flight, and the calls are made in enqueue order.
C2_SerializedDelivery ==
    /\ Cardinality(Sending) <= 1
    /\ connLog = [k \in 1..Len(connLog) |-> k]
    /\ \A i \in DOMAIN updates :
          updates[i].st # "queued" => \A j \in 1..(i - 1) : Done(updates[j])

\* Three updates were enqueued while the first was in flight; the first failed,
\* the second is in flight, the third waits.
C2_Witness ==
    /\ Len(updates) >= 3
    /\ updates[1].st = "failed"
    /\ updates[2].st = "sending"
    /\ updates[3].st = "queued"

\* --------------------------------------------------------------------- C8
\* C8: cancel() sets cancelRequested and issues an abort request without
\* resolving the Turn; a Turn during which cancel() was called stays open until
\* a terminal event arrives for it (a turn_end while it is open, or the failure
\* of its prompt request), and is then resolved to cancelled, not end_turn or
\* error.
C8_CancelClassifies ==
    /\ [](\A t \in DOMAIN turns :
            (turns[t].cancel /\ turns[t].st # "open")
               => turns[t].st = "cancelled" /\ turns[t].term # "none")
    /\ [][(ncancel' # ncancel /\ pendingTurn # 0)
            => /\ cancelRequested'
               /\ pendingTurn' = pendingTurn
               /\ \A t \in DOMAIN turns : turns'[t].st = turns[t].st
               /\ Len(reqs') = Len(reqs) + 1
               /\ reqs'[Len(reqs')].kind = "abort"]_vars

\* -------------------------------------------------------------------- C10
\* C10: a request promise is settled at most once, and fulfilled only by a
\* response carrying its own id; outstanding requests have distinct ids; a
\* settled request's id is no longer in the pending map, so a later response
\* with that id fulfils nothing.
C10_Correlation ==
    /\ [](/\ \A r \in DOMAIN reqs :
               /\ reqs[r].fut \in {"ok", "notok"} => reqs[r].by = reqs[r].id
               /\ reqs[r].fut # "pending" => reqs[r].id \notin DOMAIN pending
          /\ \A id \in DOMAIN pending : reqs[pending[id]].id = id
          /\ \A r1, r2 \in DOMAIN reqs : reqs[r1].id = reqs[r2].id => r1 = r2)
    /\ [][\A r \in DOMAIN reqs : reqs[r].fut # "pending" => reqs'[r] = reqs[r]]_vars

\* Two responses carrying the id of the only request were read; the first
\* fulfilled it, the second found the id retired.
C10_Witness ==
    /\ Len(reqs) = 1
    /\ reqs[1].fut = "ok"
    /\ nlines = 2
    /\ events = <<>>
    /\ pendingTurn = 1
    /\ flushes = <<>>

\* --------------------------------------------------------------------- C3
Resolved(t) == turns[t].st # "open"

\* C3: when a Turn resolves, every update enqueued up to the handling of its
\* terminal event (a turn_end seen while it was open, or the failure of its own
\* prompt request) has finished being delivered.
C3_FlushedBeforeResolve ==
    \A t \in DOMAIN turns :
        (Resolved(t) /\ turns[t].term # "none") => turns[t].dres >= turns[t].tpos

\* --------------------------------------------------------------------- C5
\* C5: an accepted Turn stays open until a turn_end is observed or its prompt
\* request fails: a resolved Turn has seen one of the two while it was open.
C5_OpenUntilTerminal ==
    \A t \in DOMAIN turns : Resolved(t) => turns[t].term # "none"

\* --------------------------------------------------------------------- C6
\* C6: a Turn whose prompt request fails before any turn_end arrives for it is
\* resolved, never rejected, after the updates queued at the failure have been
\* delivered, to cancelled if cancel() was called during it and to error
\* otherwise.
C6_FailureResolves ==
    \A t \in DOMAIN turns :
        /\ turns[t].st # "rejected"
        /\ (Resolved(t) /\ turns[t].term = "fail")
              => /\ turns[t].st = IF turns[t].cancel THEN "cancelled" ELSE "error"
                 /\ turns[t].dres >= turns[t].tpos

\* --------------------------------------------------------------------- C7
\* Nothing is in flight: no request is pending, no delivery is queued or being
\* made, no continuation waits.
Quiescent ==
    /\ DOMAIN pending = {}
    /\ \A r \in DOMAIN reqs : reqs[r].fut # "pending"
    /\ \A i \in DOMAIN updates : Done(updates[i])
    /\ flushes = <<>>

\* C7: a Turn does not remain open after the subprocess has exited: once the
\* exit has been handled, the rest of its output read and everything in flight
\* has drained, no Turn is open.
C7_NoOpenTurnAfterExit ==
    (child = "closed" /\ Quiescent) => pendingTurn = 0

\* --------------------------------------------------------------------- C4
\* The fragments of the text deltas observed, in order.
TextDeltas ==
    LET td == SelectSeq(events, LAMBDA e : e.type = "message_update" /\ e.ame = "text_delta")
    IN  [k \in 1..Len(td) |-> td[k].delta]
\* The texts of the message chunks enqueued, in order.
Chunks ==
    LET cs == SelectSeq(updates, LAMBDA u : u.upd.kind = "agent_message_chunk")
    IN  [k \in 1..Len(cs) |-> cs[k].upd.text]

NoRequestFailure ==
    \A r \in DOMAIN reqs : reqs[r].kind = "prompt" => reqs[r].fut \in {"pending", "ok"}

\* C4: the message chunks enqueued are the fragments of the text deltas observed,
\* one each, verbatim and in order; they are handed to the connection in that
\* order; and, with no cancel and no request failure, a Turn whose deltas were
\* followed by a turn_end resolves to end_turn once every chunk enqueued before
\* that turn_end has been delivered.
C4_ChunksThenEndTurn ==
    /\ Chunks = TextDeltas
    /\ connLog = [k \in 1..Len(connLog) |-> k]
    /\ \A t \in DOMAIN turns :
          (Resolved(t) /\ turns[t].term = "turn_end" /\ ~turns[t].cancel /\ NoRequestFailure)
             => /\ turns[t].st = "end_turn"
                /\ turns[t].dres >= turns[t].tpos

\* --------------------------------------------------------------------- C9
\* The tool-call ids the backend puts on its events: an ordinary id, the empty
\* string, and the absent field.
ToolIds == {"t1", "", NoId}
ToolLines ==
    UNION {{ToolStart(id), ToolUpdate(id), ToolEnd(id, TRUE), ToolEnd(id, FALSE)} : id \in ToolIds}
NextTools ==
    \/ \E l \in ToolLines : Line(l)
    \/ \E i \in 1..(2 * MaxLines), ok \in BOOLEAN : FinishDelivery(i, ok)
SpecTools == Init /\ [][NextTools]_vars

\* The backend events that carry tool-call id `id`, in the order observed.
EventsOf(id) == SelectSeq(events, LAMBDA e : e.type # "message_update" /\ e.toolCallId = id)
\* start, zero or more update, end.
IsLifecycle(evs) ==
    /\ Len(evs) >= 2
    /\ evs[1].type = "tool_execution_start"
    /\ evs[Len(evs)].type = "tool_execution_end"
    /\ \A k \in 2..(Len(evs) - 1) : evs[k].type = "tool_execution_update"
\* The statuses of the notifications enqueued for `id`, in order.
StatusesOf(id) ==
    LET us == SelectSeq(updates, LAMBDA u : u.upd.kind # "agent_message_chunk" /\ u.upd.id = id)
    IN  [k \in 1..Len(us) |-> us[k].upd.status]
Terminal(ev) == IF ev.isError THEN "failed" ELSE "completed"

\* C9: for every tool-call id whose events form start, update*, end, the statuses
\* of the notifications for that id are pending, in_progress, one in_progress
\* per update, and then exactly one terminal status, failed if the end event's
\* error flag is set and completed otherwise.
C9_ToolLifecycle ==
    \A id \in ToolIds \ {NoId} :
        LET evs == EventsOf(id)
        IN  IsLifecycle(evs)
              => StatusesOf(id) =
                    <<"pending", "in_progress">>
                       \o [k \in 1..(Len(evs) - 2) |-> "in_progress"]
                       \o <<Terminal(evs[Len(evs)])>>

\* -------------------------------------------------------------------- C11
\* C11: the step that handles the subprocess's exit rejects every request that
\* is pending at that moment and empties the pending map; afterwards no
\* request issued before the exit is unsettled.
C11_ExitFailsPending ==
    /\ [][(child = "alive" /\ child' # "alive")
            => /\ pending' = <<>>
               /\ \A r \in DOMAIN reqs :
                     reqs[r].fut = "pending"
                        => reqs'[r].fut = "rejected" /\ reqs'[r].by = "exit"]_vars
    /\ [](child # "alive" => pending = <<>> /\ \A r \in DOMAIN reqs : reqs[r].fut # "pending")

\* A prompt request and an abort request were both pending when the subprocess
\* exited, and the exit rejected both.
C11_Witness ==
    /\ child = "exited"
    /\ Len(reqs) = 2
    /\ \A r \in DOMAIN reqs : reqs[r].fut = "rejected" /\ reqs[r].by = "exit"

\* ------------------------------------------------------------- C12, C14
\* SessionManager.create from the start: PiRpcProcess.spawn has constructed the
\* transport and sent its get_state request; no listener is registered yet.
InitBoot ==
    /\ boot = "spawning"
    /\ child = "alive"
    /\ nuuid = 1
    /\ reqs = <<[kind |-> "get_state", id |-> Uuid(1), fut |-> "pending", by |-> "", turn |-> 0,
                 msg |-> <<>>]>>
    /\ pending = (Uuid(1) :> 1)
    /\ eventHandlers = <<>>
    /\ cancelRequested = FALSE
    /\ pendingTurn = 0
    /\ currentToolCalls = {}
    /\ updates = <<>>
    /\ connLog = <<>>
    /\ flushes = <<>>
    /\ turns = <<>>
    /\ events = <<>>
    /\ ndisp = 0
    /\ received = <<>>
    /\ thrown = ""
    /\ nbad = 0
    /\ nlines = 0
    /\ ncancel = 0
    /\ nrejected = 0

BootRequests == 2 + MaxTurns + MaxCancels
BootLines ==
    {Resp(Uuid(n), ok) : n \in 1..BootRequests, ok \in BOOLEAN} \cup {TurnEnd}

NextBoot ==
    \/ Prompt(Hi)
    \/ Cancel
    \/ \E l \in BootLines : Line(l)
    \/ Exit
    \/ \E r \in 1..BootRequests : WriteFail(r)

SpecBoot == InitBoot /\ [][NextBoot]_vars

\* C12: a request (get_state, prompt or abort) issued after the subprocess has
\* exited is rejected in the step that issues it, and its id is not in the
\* pending map.
C12_RequestAfterExitFails ==
    [][(child' # "alive" /\ Len(reqs') > Len(reqs))
         => \A r \in (DOMAIN reqs') \ (DOMAIN reqs) :
               /\ reqs'[r].fut = "rejected"
               /\ reqs'[r].id \notin DOMAIN pending']_vars

\* After the exit a prompt() and a cancel() were called: both requests are
\* rejected and none is in the pending map.
C12_Witness ==
    /\ child = "exited"
    /\ \E r1, r2 \in DOMAIN reqs :
          /\ reqs[r1].kind = "prompt" /\ reqs[r1].by = "write" /\ reqs[r1].fut = "rejected"
          /\ reqs[r2].kind = "abort" /\ reqs[r2].by = "write" /\ reqs[r2].fut = "rejected"
    /\ pending = <<>>

\* C14: a failed handshake is not fatal: while the backend runs, creating the
\* session does not fail, whatever the backend answers to get_state.
C14_HandshakeNonFatal == child = "alive" => boot # "failed"

\* ------------------------------------------------------------- C13, C20
\* Lines of text as readline delivers them.
RawBlank     == {"", "  "}
RawMalformed == {"pi: warning", "{\"type\":\"turn_end\""}
RawTurnEnd   == "{\"type\":\"turn_end\"}"
RawDelta     == "{\"type\":\"message_update\",\"assistantMessageEvent\":{\"type\":\"text_delta\",\"delta\":\"a\"}}"
RawRespOk    == "{\"type\":\"response\",\"id\":\"u1\",\"ok\":true}"
RawRespErr   == "{\"type\":\"response\",\"id\":\"u1\",\"ok\":false}"
RawRespStray == "{\"type\":\"response\",\"id\":\"u0\",\"ok\":true}"
RawLines ==
    RawBlank \cup RawMalformed \cup {RawTurnEnd, RawDelta, RawRespOk, RawRespErr, RawRespStray}

\* !line.trim() (part_000:149)
IsBlank(raw) == raw \in {"", "  "}

\* JSON.parse(line) (part_000:152): the value, or SyntaxError where it throws.
SyntaxError == [type |-> "SyntaxError"]
JsonParse_Lenient(raw) ==
    CASE raw = RawRespOk    -> Resp("u1", TRUE)
      [] raw = RawRespErr   -> Resp("u1", FALSE)
      [] raw = RawRespStray -> Resp("u0", TRUE)
      [] raw = RawDelta     -> TextDelta("a")
      [] OTHER              -> TurnEnd
JsonParse(raw) ==
    CASE raw = RawTurnEnd   -> TurnEnd
      [] raw = RawDelta     -> TextDelta("a")
      [] raw = RawRespOk    -> Resp("u1", TRUE)
      [] raw = RawRespErr   -> Resp("u1", FALSE)
      [] raw = RawRespStray -> Resp("u0", TRUE)
      [] OTHER              -> SyntaxError

\* The 'line' handler from the text of the line (part_000:148-167): a blank line
\* and a line JSON.parse throws on are returned from; any other goes on as Line.
ReadLine(raw) ==
    IF IsBlank(raw) \/ JsonParse(raw) = SyntaxError
    THEN /\ Running
         /\ child # "closed"
         /\ nlines < MaxLines
         /\ nlines' = nlines + 1
         /\ nbad' = nbad + 1
         /\ UNCHANGED <<boot, child, nuuid, reqs, pending, eventHandlers, cancelRequested,
                        pendingTurn, currentToolCalls, updates, connLog, flushes, turns,
                        events, ndisp, received, thrown, ncancel, nrejected>>
    ELSE Line(JsonParse(raw))

NextParse ==
    \/ Prompt(Hi)
    \/ \E raw \in RawLines : ReadLine(raw)
    \/ \E i \in 1..MaxLines : FinishDelivery(i, TRUE)

SpecParse == Init /\ [][NextParse]_vars

\* What a line can touch besides the line count.
LineFrame == <<boot, child, nuuid, reqs, pending, eventHandlers, cancelRequested, pendingTurn,
               currentToolCalls, updates, connLog, flushes, turns, events, ndisp, received, thrown, ncancel,
               nrejected>>

\* C13: reading a line that is not parsable changes nothing but the count of
\* lines read: no event is dispatched, no request settled, the pending map and
\* the listener list stay as they were, so the lines after it are handled as if
\* it had not been there.
C13_MalformedDiscarded ==
    [][\A raw \in RawMalformed : ReadLine(raw) => UNCHANGED LineFrame]_vars

\* With a prompt request pending, an unparsable line was read, then a delta was
\* dispatched and the response settled the request.
C13_Witness ==
    /\ nbad = 1
    /\ nlines = 3
    /\ ndisp = 1
    /\ Len(reqs) = 1 /\ reqs[1].fut = "ok"
    /\ Len(updates) = 1

\* The responses of SpecParse's lines.
RespLines == {JsonParse(raw) : raw \in {RawRespOk, RawRespErr, RawRespStray}}

\* C20: reading a response whose id is not in the pending map (retired, or never
\* issued) changes nothing but the count of lines read: it is not dispatched to
\* the listeners, settles no request and leaves the pending map as it was.
C20_UnknownResponseDropped ==
    [][\A l \in RespLines :
          (l.id \notin DOMAIN pending /\ Line(l)) => UNCHANGED LineFrame]_vars

\* Four lines were read: a turn_end, the response to the first request, and two
\* responses that matched nothing (a retired id or one never issued) while the
\* request of the second prompt was pending.
C20_Witness ==
    /\ nlines = 4
    /\ nbad = 0
    /\ ndisp = 1
    /\ Len(reqs) = 2
    /\ reqs[1].fut = "ok"
    /\ reqs[2].fut = "pending"
    /\ reqs[2].id \in DOMAIN pending
    /\ pendingTurn = 2

\* -------------------------------------------------------------------- C15
\* C15: the outcome of a resolved Turn never changes, and a cancel() called
\* while no Turn is open changes no Turn: it sets the flag, issues the abort
\* request, and resolves nothing.
C15_CancelAfterResolve ==
    /\ [][\A t \in DOMAIN turns :
            Resolved(t) => /\ turns'[t].st = turns[t].st
                           /\ turns'[t].dres = turns[t].dres]_vars
    /\ [][(ncancel' # ncancel /\ pendingTurn = 0)
            => turns' = turns /\ pendingTurn' = 0]_vars

\* cancel() was called after the only Turn had resolved to end_turn.
C15_Witness ==
    /\ ncancel = 1
    /\ cancelRequested
    /\ Len(turns) = 1
    /\ turns[1].st = "end_turn"
    /\ ~turns[1].cancel

\* -------------------------------------------------------------------- C16
\* The texts given to prompt(): with and without the prefix, with a known, a
\* shadowed and an unknown command name, with arguments, blanks and quotes.
MaxPieces == 2
TextHeads == {<<>>, <<"/">>, <<"/", "a">>, <<"/", "b">>, <<"/", "c">>, <<"a">>}
TextPieces == {<<" ">>, <<" ", "x">>, <<" ", "'", "x">>}
TextTails == {Flatten(ps) : ps \in UNION {[1..n -> TextPieces] : n \in 0..MaxPieces}}
Texts == {h \o t : h \in TextHeads, t \in TextTails}

NextSlash ==
    \/ \E text \in Texts : Prompt(text)
    \/ Line(TurnEnd)

SpecSlash == Init /\ [][NextSlash]_vars

\* The name a text invokes and its raw argument string.
NameOf(text) ==
    IF IndexOfSpace(text) = 0 THEN SubSeq(text, 2, Len(text))
    ELSE SubSeq(text, 2, IndexOfSpace(text) - 1)
ArgsOf(text) ==
    IF IndexOfSpace(text) = 0 THEN <<>>
    ELSE ParseCommandArgs(SubSeq(text, IndexOfSpace(text) + 1, Len(text)))
\* The catalog entries with a given name.
Named(name) == {k \in DOMAIN fileCommands : fileCommands[k].name = name}

\* C16: every accepted prompt() sends exactly one prompt request, and the
\* message it carries is the text unchanged when the text has no '/' prefix or
\* names no catalog entry, and otherwise the body of the first entry with that
\* name with the arguments substituted.
C16_PromptCarriesExpansion ==
    LET prompts == SelectSeq(reqs, LAMBDA q : q.kind = "prompt")
    IN  /\ Len(prompts) = Len(turns)
        /\ \A t \in DOMAIN turns :
              LET text == turns[t].text
                  msg == prompts[t].msg
              IN  /\ prompts[t].turn = t
                  /\ IF text = <<>> \/ text[1] # "/" \/ Named(NameOf(text)) = {}
                     THEN msg = text
                     ELSE LET k == CHOOSE k \in Named(NameOf(text)) :
                                      \A j \in Named(NameOf(text)) : k <= j
                          IN  msg = SubstituteArgs(fileCommands[k].content, ArgsOf(text))

\* prompt("/a x 'x") was sent as "x=x x xx", the body of the first entry named
\* "a" with its arguments, and prompt("/c x"), an unknown name, went unchanged.
C16_Witness ==
    /\ Len(turns) = 2
    /\ turns[1].text = <<"/", "a", " ", "x", " ", "'", "x">>
    /\ reqs[1].msg = <<"x", "=", "x", " ", "x", " ", "x", "x">>
    /\ turns[2].text = <<"/", "c", " ", "x">>
    /\ reqs[2].msg = <<"/", "c", " ", "x">>

\* -------------------------------------------------------------------- C17
\* The tool event the step handled, if it handled one.
HandledToolEvent(e) ==
    /\ Len(events') = Len(events) + 1
    /\ events'[Len(events')] = e

\* C17: a tool_execution_update or tool_execution_end whose id is absent or not
\* in the live set enqueues no notification and leaves the live set, the open
\* Turn and the cancellation flag as they were.
C17_UnknownToolIgnored ==
    [][\A e \in ToolLines :
          (/\ e.type \in {"tool_execution_update", "tool_execution_end"}
           /\ e.toolCallId = NoId \/ e.toolCallId \notin currentToolCalls
           /\ HandledToolEvent(e))
             => /\ Len(updates') = Len(updates)
                /\ currentToolCalls' = currentToolCalls
                /\ pendingTurn' = pendingTurn
                /\ cancelRequested' = cancelRequested]_vars

\* -------------------------------------------------------------------- C18
StartOrEnd(evs) ==
    SelectSeq(evs, LAMBDA e : e.type \in {"tool_execution_start", "tool_execution_end"})

\* The ids the backend names whose call is open: the last start or end event
\* carrying the id is a start.
OpenNamed ==
    {id \in ToolIds \ {NoId} :
        LET se == StartOrEnd(EventsOf(id))
        IN  se # <<>> /\ se[Len(se)].type = "tool_execution_start"}

\* The number of open calls the backend gave no id: each start without an id
\* opens one (an id is minted for it), each end without an id closes one.
RECURSIVE OpenUnnamed(_)
OpenUnnamed(evs) ==
    IF evs = <<>> THEN 0
    ELSE LET n == OpenUnnamed(SubSeq(evs, 1, Len(evs) - 1))
             e == evs[Len(evs)]
         IN  IF e.toolCallId # NoId THEN n
             ELSE IF e.type = "tool_execution_start" THEN n + 1
             ELSE IF e.type = "tool_execution_end" /\ n > 0 THEN n - 1
             ELSE n

\* C18: the live set is the open set: of the ids the backend names, exactly
\* those whose call has started and not ended, and one minted id for each open
\* call whose start carried no id.
C18_LiveSetIsOpenSet ==
    /\ currentToolCalls \cap (ToolIds \ {NoId}) = OpenNamed
    /\ Cardinality(currentToolCalls \ ToolIds) = OpenUnnamed(events)

\* -------------------------------------------------------------------- C19
\* C19: once the subprocess's exit has been handled, no message is handed to a
\* listener, whatever is read from its output afterwards.
C19_NoDispatchAfterExit ==
    [][child # "alive" => ndisp' = ndisp]_vars

\* -------------------------------------------------------------------- C21
\* The listeners besides the session's: each records what it is called with.
Recorders == {"r1", "r2"}

\* Lines of every classification: events the session knows, values it does
\* not, and a response.
ListenLines == {TextDelta("a"), TurnEnd, AgentEnd, Null, Resp(Uuid(1), TRUE)}

NextListen ==
    \/ \E h \in Recorders : OnEvent(h)
    \/ Prompt(Hi)
    \/ \E l \in ListenLines : Line(l)
    \/ \E i \in 1..MaxLines : FinishDelivery(i, TRUE)

SpecListen == Init /\ [][NextListen]_vars

\* The recording listeners registered, in registration order.
Registered == SelectSeq(eventHandlers, LAMBDA h : h \in Recorders)

SwallowLines == {TextDelta("a"), TurnEnd, Resp(Uuid(1), FALSE)}

NextSwallow ==
    \/ Prompt(Hi)
    \/ Cancel
    \/ \E l \in SwallowLines : Line(l)
    \/ \E i \in 1..MaxLines, ok \in BOOLEAN : FinishDelivery(i, ok)

SpecSwallow == Init /\ [][NextSwallow]_vars

\* C22: a delivery that fails is swallowed.  The updates behind it are still
\* handed to the connection, in order: an update waits only while one before it
\* is in flight.  A continuation waiting for the queue to drain waits only
\* while a delivery is in flight, and the Turn it resolves gets the outcome the
\* flag and the terminal event give, whatever the deliveries' results.  No
\* exception escapes the event handling.
C22_FailedDeliverySwallowed ==
    /\ [](\A i \in DOMAIN updates :
            updates[i].st = "queued" => \E j \in 1..(i - 1) : updates[j].st = "sending")
    /\ [](connLog = [k \in 1..Len(connLog) |-> k])
    /\ [](flushes # <<>> => Sending # {})
    /\ [][\A t \in DOMAIN turns :
            (turns[t].st = "open" /\ turns'[t].st # "open")
               => /\ turns'[t].st = StopReason(cancelRequested', turns'[t].via)
                  /\ turns'[t].dres = NDone(updates')]_vars
    /\ [](thrown = "")

\* The first chunk's delivery failed, the second was delivered after it, and
\* the Turn whose turn_end followed both resolved to end_turn.
C22_Witness ==
    /\ Len(updates) = 2
    /\ updates[1].st = "failed"
    /\ updates[2].st = "sent"
    /\ Len(turns) = 1
    /\ turns[1].st = "end_turn"
    /\ turns[1].term = "turn_end"
    /\ turns[1].tpos = 2
    /\ turns[1].dres = 2

\* -------------------------------------------------------------------- C23
\* The values handlePiEvent has no case for.
UnknownLines == {AgentEnd, Untyped, Number, Null, RespNoId}

NextUnknown ==
    \/ Prompt(Hi)
    \/ Cancel
    \/ \E l \in UnknownLines \cup {TextDelta("a"), ToolStart("t1")} : Line(l)
    \/ \E i \in 1..MaxLines : FinishDelivery(i, TRUE)

SpecUnknown == Init /\ [][NextUnknown]_vars

\* C23: reading a value the session has no case for (an unknown type, no type,
\* not a mapping) throws nothing, enqueues no notification and leaves the open
\* Turn, the cancellation flag and the live set as they were.
C23_UnknownEventIgnored ==
    [][\A l \in UnknownLines :
          Line(l) => /\ thrown' = ""
                     /\ updates' = updates
                     /\ turns' = turns
                     /\ pendingTurn' = pendingTurn
                     /\ cancelRequested' = cancelRequested
                     /\ currentToolCalls' = currentToolCalls]_vars

\* -------------------------------------------------------------------- C24
\* C24: a Turn is resolved only by a continuation registered for it: by a
\* turn_end handled while it was open, or by the failure of its own prompt
\* request; never by one registered while no Turn or an earlier Turn was open.
C24_ResolvedByOwnTrigger ==
    \A t \in DOMAIN turns : Resolved(t) => turns[t].trig = t

\* -------------------------------------------------------------------- C25
\* C25: a Turn resolved to cancelled had cancel() called while it was open; a
\* cancel() called before its prompt() was accepted does not count, because the
\* accepted prompt() clears the flag.
C25_CancelledOnlyIfCancelled ==
    /\ [](\A t \in DOMAIN turns : turns[t].st = "cancelled" => turns[t].cancel)
    /\ [][Len(turns') > Len(turns) => ~cancelRequested']_vars

\* cancel() was called while no Turn was open; the Turn opened afterwards saw a
\* turn_end and resolved to end_turn.
C25_Witness ==
    /\ ncancel = 1
    /\ Len(turns) = 1
    /\ ~turns[1].cancel
    /\ turns[1].term = "turn_end"
    /\ turns[1].st = "end_turn"
    /\ reqs[1].kind = "abort"

\* -------------------------------------------------------------------- C26
\* C26: a prompt() rejected because a Turn is open changes nothing of the
\* session or the transport: the flag keeps its value, the open Turn, the
\* notification queue, the waiting continuations, the live set and the requests
\* are as before, so what follows is what would have followed without the call.
C26_RejectedPromptNoEffect ==
    [][nrejected' # nrejected
         => UNCHANGED <<cancelRequested, pendingTurn, turns, updates, connLog, flushes,
                        currentToolCalls, nuuid, reqs, pending, eventHandlers, events>>]_vars

\* cancel() was called during the only Turn and a second prompt() was rejected
\* while it was open; the Turn then resolved to cancelled at its turn_end.
C26_Witness ==
    /\ nrejected = 1
    /\ Len(turns) = 1
    /\ turns[1].cancel
    /\ turns[1].term = "turn_end"
    /\ turns[1].st = "cancelled"
    /\ cancelRequested

====
